---- MODULE Spec2Model ----
(***************************************************************************)
(* Model of src/app.py: the Pakistan criminal-law chatbot.  One Streamlit  *)
(* script run (main) per widget interaction: text extraction of the two    *)
(* uploads, the corpus gate, language detection, the section router,       *)
(* get_law_details, analyze_case and display_urdu_rtl_streamlit.           *)
(*                                                                         *)
(* Text is a sequence of characters.  An ASCII character is the one-letter *)
(* string of itself; the other characters carry a name:                    *)
(*   "NL" U+000A, "AQM" U+061F (Arabic question mark, which the patterns   *)
(*   of lines 104, 105 and 264 carry where a regex quantifier would be a   *)
(*   "?"), "BULLET" U+2022, "AR_FOUR" U+0664, and "AR_..." Arabic letters. *)
(***************************************************************************)
EXTENDS Integers, Sequences, FiniteSets, TLC

----------------------------------------------------------------------------
(* Characters and the str / re character classes                           *)

Uppers == <<"A","B","C","D","E","F","G","H","I","J","K","L","M",
            "N","O","P","Q","R","S","T","U","V","W","X","Y","Z">>

Lowers == <<"a","b","c","d","e","f","g","h","i","j","k","l","m",
            "n","o","p","q","r","s","t","u","v","w","x","y","z">>

AsciiUpper == {Uppers[i] : i \in 1..26}

AsciiLower == {Lowers[i] : i \in 1..26}

AsciiDigit == {"0","1","2","3","4","5","6","7","8","9"}

AsciiOther == {" ", "NL", ".", "-", "*", "+", ":", "?", "_"}

ArabicLetter == {"AR_KEHEH", "AR_YEH", "AR_ALEF", "AR_HEH", "AR_YEH_BARREE",
                 "AR_DAL", "AR_FEH", "AR_AIN", "AR_NOON", "AR_MEEM",
                 "AR_LAM", "AR_WAW"}

\* str.isascii(): code point below 128
isascii(c) == c \in AsciiUpper \cup AsciiLower \cup AsciiDigit \cup AsciiOther

\* str.isalpha(): a Unicode letter
isalpha(c) == c \in AsciiUpper \cup AsciiLower \cup ArabicLetter

\* re \d on str patterns: any Unicode decimal digit
IsDigit(c) == c \in AsciiDigit \cup {"AR_FOUR"}

\* re \s and str.strip(): Unicode whitespace
IsSpace(c) == c \in {" ", "NL"}

\* re \w: letters, digits and the underscore
IsWord(c) == isalpha(c) \/ IsDigit(c) \/ c = "_"

\* str.lower() of one character
lowerChar(c) ==
    IF c \in AsciiUpper THEN Lowers[CHOOSE i \in 1..26 : Uppers[i] = c] ELSE c

\* str.lower()
lower(s) == [i \in 1..Len(s) |-> lowerChar(s[i])]

\* the "in" operator on strings: sub occurs in s
Contains(s, sub) ==
    \E i \in 1..(Len(s) - Len(sub) + 1) : SubSeq(s, i, i + Len(sub) - 1) = sub

\* s.startswith-style test at index i (1-based), ignoring case (re.IGNORECASE)
LitAt(s, i, lit) ==
    /\ i + Len(lit) - 1 <= Len(s)
    /\ \A k \in 1..Len(lit) : lowerChar(s[i + k - 1]) = lowerChar(lit[k])

\* slice s[:n]
Take(s, n) == SubSeq(s, 1, IF Len(s) < n THEN Len(s) ELSE n)

\* first index >= i whose character is not in the class; Len(s)+1 when none
RECURSIVE SkipSpace(_, _)
SkipSpace(s, i) == IF i <= Len(s) /\ IsSpace(s[i]) THEN SkipSpace(s, i + 1) ELSE i

RECURSIVE SkipDigit(_, _)
SkipDigit(s, i) == IF i <= Len(s) /\ IsDigit(s[i]) THEN SkipDigit(s, i + 1) ELSE i

\* str.strip()
RECURSIVE RStrip(_)
RStrip(s) == IF s # <<>> /\ IsSpace(s[Len(s)]) THEN RStrip(SubSeq(s, 1, Len(s) - 1)) ELSE s

strip(s) == LET i == SkipSpace(s, 1) IN RStrip(SubSeq(s, i, Len(s)))

\* re \b at the gap before index i (i in 1..Len(s)+1)
WordBoundary(s, i) ==
    LET before == i > 1 /\ IsWord(s[i - 1])
        after  == i <= Len(s) /\ IsWord(s[i])
    IN  before # after

Min(S) == CHOOSE x \in S : \A y \in S : x <= y

Max(S) == CHOOSE x \in S : \A y \in S : y <= x

----------------------------------------------------------------------------
(* Language detection, main lines 250-262                                  *)

KW_what_is == <<"w","h","a","t"," ","i","s">>

KW_section == <<"s","e","c","t","i","o","n">>

KW_law == <<"l","a","w">>

KW_urdu == <<"u","r","d","u">>

KW_roman == <<"r","o","m","a","n">>

\* the Roman Urdu keywords of lines 257-260
RomanUrduKeywords ==
    { <<"k","y","a">>, <<"k","i","y","a">>, <<"k","a","i","s","e">>,
      <<"m","e","i","n">>, <<"m","u","j","h","e">>, <<"b","a","t","a","o">>,
      <<"l","a","g","t","e">>, <<"h","o","g","a","y","a">> }

\* variant of IsEnglishQuery: the two negations guard all three cues,
\* (A or B or C) and D and E
IsEnglishQueryGrouped(low) ==
    /\ \/ Contains(low, KW_what_is)
       \/ Contains(low, KW_section)
       \/ Contains(low, KW_law)
    /\ ~Contains(low, KW_urdu)
    /\ ~Contains(low, KW_roman)

\* Python binds "and" tighter than "or": A or B or (C and D and E)
IsEnglishQuery(low) ==
    \/ Contains(low, KW_what_is)
    \/ Contains(low, KW_section)
    \/ (Contains(low, KW_law) /\ ~Contains(low, KW_urdu) /\ ~Contains(low, KW_roman))

DetectLanguage(q) ==
    LET low      == lower(q)
        anyAlpha == \E i \in 1..Len(q) : isalpha(q[i])
        anyAscii == \E i \in 1..Len(q) : isascii(q[i])
    IN  IF IsEnglishQuery(low) THEN "en"
        ELSE IF anyAlpha /\ ~anyAscii THEN "ur"
        ELSE IF anyAlpha /\ \E k \in RomanUrduKeywords : Contains(low, k) THEN "ro"
        ELSE "ur"

----------------------------------------------------------------------------
(* Query router, main line 264:                                            *)
(*   re.search(r'\b(PPC|CrPC)<AQM>\s*(\d+)\b', user_input, re.IGNORECASE)  *)
(* The character after the group is U+061F, a literal the text must hold.  *)

LIT_PPC == <<"P","P","C">>

LIT_CrPC == <<"C","r","P","C">>

\* length of the (PPC|CrPC) alternative matching at i, 0 when none does
LawCodeLenAt(s, i) ==
    IF LitAt(s, i, LIT_PPC) THEN 3 ELSE IF LitAt(s, i, LIT_CrPC) THEN 4 ELSE 0

RouterMatchAt(s, i) ==
    LET n == LawCodeLenAt(s, i)
        q == i + n
        w == SkipSpace(s, q + 1)
        d == SkipDigit(s, w)
    IN  /\ WordBoundary(s, i)
        /\ n > 0
        /\ q <= Len(s)
        /\ s[q] = "AQM"
        /\ d > w
        /\ WordBoundary(s, d)

NoMatch == [found |-> FALSE, group1 |-> <<>>, group2 |-> <<>>]

\* re.search: the leftmost match; group(1) the law code, group(2) the digits
SectionSearch(s) ==
    LET starts == {i \in 1..Len(s) : RouterMatchAt(s, i)}
    IN  IF starts = {} THEN NoMatch
        ELSE LET i == Min(starts)
                 n == LawCodeLenAt(s, i)
                 w == SkipSpace(s, i + n + 1)
             IN  [found  |-> TRUE,
                  group1 |-> SubSeq(s, i, i + n - 1),
                  group2 |-> SubSeq(s, w, SkipDigit(s, w) - 1)]

----------------------------------------------------------------------------
(* Section locator, get_law_details lines 102-113:                         *)
(*   (?:Section|SECTION|Sec\.<AQM>|S\.|Dafaa|<dafa>)<AQM>\s* NUMBER        *)
(*   [\.\s:-]*[\s\S]*<AQM>(?=(?:...same markers...)<AQM>\s*\d+|$)          *)
(* with re.IGNORECASE; <AQM> is the literal U+061F of the source.          *)

SectionMarkers ==
    { <<"S","e","c","t","i","o","n">>,
      <<"S","E","C","T","I","O","N">>,
      <<"S","e","c",".","AQM">>,
      <<"S",".">>,
      <<"D","a","f","a","a">>,
      <<"AR_DAL","AR_FEH","AR_AIN","AR_HEH">> }

\* indexes right after a marker alternative followed by the literal AQM
MarkerEnds(s, i) ==
    { i + Len(m) + 1 : m \in { mm \in SectionMarkers :
                                 /\ LitAt(s, i, mm)
                                 /\ i + Len(mm) <= Len(s)
                                 /\ s[i + Len(mm)] = "AQM" } }

\* the lookahead (?=marker<AQM>\s*\d+|$) at index e; $ also matches
\* before a final newline
LookaheadAt(s, e) ==
    \/ \E j \in MarkerEnds(s, e) : SkipDigit(s, SkipSpace(s, j)) > SkipSpace(s, j)
    \/ e = Len(s) + 1
    \/ (e = Len(s) /\ s[e] = "NL")

\* ends (exclusive) of the matches starting at i: after marker, spaces and
\* the number, any text whose last character is AQM and where the lookahead holds
LocatorEndsAt(s, i, section_number) ==
    UNION { LET w == SkipSpace(s, j)
                p == w + Len(section_number)
            IN  IF LitAt(s, w, section_number)
                THEN { e \in (p + 1)..(Len(s) + 1) : s[e - 1] = "AQM" /\ LookaheadAt(s, e) }
                ELSE {}
            : j \in MarkerEnds(s, i) }

\* pattern.search(law_text).group(0), or the empty text when there is no
\* match: leftmost start, both starred classes greedy so the furthest end
LocatorSearch(section_number, law_text) ==
    LET starts == {i \in 1..Len(law_text) :
                      LocatorEndsAt(law_text, i, section_number) # {}}
    IN  IF starts = {} THEN [found |-> FALSE, group0 |-> <<>>]
        ELSE LET i == Min(starts)
                 e == Max(LocatorEndsAt(law_text, i, section_number))
             IN  [found |-> TRUE, group0 |-> SubSeq(law_text, i, e - 1)]

\* line 111: the excerpt is cut to 2000 characters
SectionLimit == 2000

LocateSection(section_number, law_text) ==
    LET match == LocatorSearch(section_number, law_text)
    IN  IF match.found THEN Take(match.group0, SectionLimit) ELSE <<>>

----------------------------------------------------------------------------
(* Presentation formatter, display_urdu_rtl_streamlit lines 41-52:         *)
(*   list_item_pattern = re.compile(r'^\s*[-*+<BULLET>]|\s*\d+\.')         *)

ListMarkers == {"-", "*", "+", "BULLET"}

\* end (exclusive) of the match of list_item_pattern at index i, 0 when
\* none: the first alternative only at the start of the text, the second
\* (spaces, digits, a dot) at any index
PatternEndAt(s, i) ==
    LET w == SkipSpace(s, i)
        d == SkipDigit(s, w)
    IN  IF i = 1 /\ w <= Len(s) /\ s[w] \in ListMarkers THEN w + 1
        ELSE IF d > w /\ d <= Len(s) /\ s[d] = "." THEN d + 1
        ELSE 0

\* list_item_pattern.match(s)
list_item_match(s) == PatternEndAt(s, 1) > 0

\* list_item_pattern.sub('', s): every match is removed, left to right
RECURSIVE list_item_sub(_, _)
list_item_sub(s, i) ==
    IF i > Len(s) THEN <<>>
    ELSE LET e == PatternEndAt(s, i)
         IN  IF e > 0 THEN list_item_sub(s, e)
             ELSE <<s[i]>> \o list_item_sub(s, i + 1)

\* the body of the loop, lines 46-50
ProcessLine(line) ==
    IF list_item_match(strip(line))
    THEN <<"BULLET", " ">> \o list_item_sub(strip(line), 1)
    ELSE line

\* text.split('\n')
RECURSIVE SplitLines(_)
SplitLines(text) ==
    LET nl == {i \in 1..Len(text) : text[i] = "NL"}
    IN  IF nl = {} THEN <<text>>
        ELSE LET i == Min(nl)
             IN  <<SubSeq(text, 1, i - 1)>> \o SplitLines(SubSeq(text, i + 1, Len(text)))

\* '\n'.join(lines)
RECURSIVE JoinLines(_)
JoinLines(lines) ==
    IF Len(lines) = 1 THEN lines[1]
    ELSE lines[1] \o <<"NL">> \o JoinLines(Tail(lines))

\* processed_text, lines 41-52
ProcessText(text) ==
    LET lines == SplitLines(text)
    IN  JoinLines([i \in 1..Len(lines) |-> ProcessLine(lines[i])])

----------------------------------------------------------------------------
(* Optional text (None or a str) and the fixed texts of the program.  A    *)
(* fixed text is kept as one symbol: none of them holds a newline, a list  *)
(* marker at its start or a digit followed by a dot.                       *)

NoneText == [isNone |-> TRUE, s |-> <<>>]

Some(s) == [isNone |-> FALSE, s |-> s]

\* Python truth value of an optional str: None and "" are false
Truthy(t) == ~t.isNone /\ t.s # <<>>

Langs == {"ur", "en", "ro"}

lang_map_full == [l \in Langs |->
    IF l = "en" THEN "English" ELSE IF l = "ur" THEN "Urdu" ELSE "Roman Urdu"]

\* variant of TextNotAvailable: the English text whatever the language
TextNotAvailableEnglish(lang) ==
    <<"<en: Sorry, relevant legal text is not available.>">>

\* line 94
TextNotAvailable(lang) ==
    IF lang = "ur" THEN <<"<ur: relevant legal text not available>">>
    ELSE <<"<en: Sorry, relevant legal text is not available.>">>

\* lines 123 and 154
NoDetails(lang) ==
    IF lang = "ur" THEN <<"<ur: no details for this section at the moment>">>
    ELSE <<"<en: I do not have details for this section at the moment.>">>

\* line 166
CaseNotAvailable(lang) ==
    IF lang = "ur" THEN <<"<ur: legal text not available for case analysis>">>
    ELSE <<"<en: Sorry, legal text is not available for case analysis.>">>

\* variant of ApiError: the English prefix whatever the language
ApiErrorEnglish(lang, e) ==
    <<"<en: Error getting response from Gemini API: >">> \o e

\* lines 158 and 198: the fixed prefix followed by str(e)
ApiError(lang, e) ==
    (IF lang = "ur" THEN <<"<ur: error getting response from Gemini API: >">>
     ELSE <<"<en: Error getting response from Gemini API: >">>) \o e

\* line 248
UploadWarning == <<"<en: Please upload both PPC and CrPC PDF files in the sidebar to use the chatbot.>">>

\* line 286
LawTextError == <<"<en: Error: Law text not available for the requested section.>">>

\* line 188, the Urdu sentence the case prompt quotes
Disclaimer == <<"<ur: note, I am an AI model and cannot give legal advice ...>">>

\* line 153, the marker of an "unknown" answer
UnknownMarker == <<"AR_NOON","AR_ALEF","AR_MEEM","AR_AIN","AR_LAM","AR_WAW","AR_MEEM">>

----------------------------------------------------------------------------
(* Prompts and the post-processing of the model's reply                    *)

\* lines 160 and 183-184: each corpus is cut to 7000 characters
CaseTextLimit == 7000

NoPrompt == [task |-> "none", section_number |-> <<>>, law_text |-> <<>>,
             case_description |-> <<>>, ppc_text |-> <<>>, crpc_text |-> <<>>,
             language |-> "", quoted |-> <<>>]

\* lines 115-147
DetailPrompt(section_number, section_content, lang) ==
    [task |-> "details", section_number |-> section_number,
     law_text |-> section_content,
     case_description |-> <<>>, ppc_text |-> <<>>, crpc_text |-> <<>>,
     language |-> lang_map_full[lang], quoted |-> NoDetails(lang)]

\* lines 174-192
CasePrompt(case_description, ppc, crpc, lang) ==
    [task |-> "case", section_number |-> <<>>, law_text |-> <<>>,
     case_description |-> case_description,
     ppc_text |-> Take(ppc, CaseTextLimit), crpc_text |-> Take(crpc, CaseTextLimit),
     language |-> lang_map_full[lang], quoted |-> Disclaimer]

\* lines 149-158: o is the outcome of model.generate_content(prompt).text,
\* a reply or a raised exception
DetailsAnswer(o, content, lang) ==
    IF o.ok
    THEN LET answer == strip(o.text)
         IN  IF answer = <<>> \/ (Contains(answer, UnknownMarker) /\ content = <<>>)
             THEN NoDetails(lang)
             ELSE answer
    ELSE ApiError(lang, o.err)

\* variant of CaseAnswer: the reply is stripped as get_law_details does
CaseAnswerStripped(o, lang) ==
    IF o.ok THEN strip(o.text) ELSE ApiError(lang, o.err)

\* lines 194-198
CaseAnswer(o, lang) ==
    IF o.ok THEN o.text ELSE ApiError(lang, o.err)

----------------------------------------------------------------------------
(* Uploaded files and extract_text_from_pdf, lines 22-35                   *)

NoUpload == [present |-> FALSE, corrupt |-> FALSE, pages |-> <<>>]

Pdf(pages) == [present |-> TRUE, corrupt |-> FALSE, pages |-> pages]

\* a file PyPDF2 cannot read
CorruptPdf == [present |-> TRUE, corrupt |-> TRUE, pages |-> <<>>]

\* text += page.extract_text() or ""
RECURSIVE ConcatPages(_)
ConcatPages(pages) ==
    IF pages = <<>> THEN <<>>
    ELSE (IF Truthy(pages[1]) THEN pages[1].s ELSE <<>>) \o ConcatPages(Tail(pages))

extract_text_from_pdf(f) ==
    IF f.corrupt THEN NoneText ELSE Some(ConcatPages(f.pages))

----------------------------------------------------------------------------
(* Inputs: uploads, what the user types, what the external model answers   *)

\* "Section 302 Qatl Section 303 x " / (no text) / "Section 420 Cheating Section 421 y"
PpcPdf == Pdf(<<
    Some(<<"S","e","c","t","i","o","n"," ","3","0","2"," ","Q","a","t","l"," ",
           "S","e","c","t","i","o","n"," ","3","0","3"," ","x"," ">>),
    NoneText,
    Some(<<"S","e","c","t","i","o","n"," ","4","2","0"," ","C","h","e","a","t","i","n","g"," ",
           "S","e","c","t","i","o","n"," ","4","2","1"," ","y">>) >>)

\* a statute whose section markers are each followed by U+061F:
\* "Section<AQM> 302 Qatl<AQM>Section<AQM> 303 x<AQM>"
PpcAqmPdf == Pdf(<<
    Some(<<"S","e","c","t","i","o","n","AQM"," ","3","0","2"," ","Q","a","t","l","AQM",
           "S","e","c","t","i","o","n","AQM"," ","3","0","3"," ","x","AQM">>) >>)

\* "Section 154 FIR"
CrpcPdf == Pdf(<<
    Some(<<"S","e","c","t","i","o","n"," ","1","5","4"," ","F","I","R">>) >>)

\* a scanned file: pages without text
BlankPdf == Pdf(<<NoneText, Some(<<>>)>>)

PpcUploads == {NoUpload, CorruptPdf, BlankPdf, PpcPdf, PpcAqmPdf}

CrpcUploads == {NoUpload, CorruptPdf, BlankPdf, CrpcPdf}

\* fragments the user types into the question field
QueryTokens ==
    { <<"W","h","a","t"," ","i","s">>,
      <<"S","e","c","t","i","o","n">>,
      <<"l","a","w">>,
      <<"u","r","d","u">>,
      <<"R","o","m","a","n">>,
      <<"k","y","a">>,
      <<"M","e","i","n">>,
      <<" ">>,
      <<"3","0","2">>,
      <<"4","2","0">>,
      <<"P","P","C">>,
      <<"P","P","C","AQM">>,
      <<"c","r","p","c","AQM">>,
      <<"AR_KEHEH","AR_YEH","AR_ALEF">>,
      <<" ","AR_KEHEH","AR_YEH","AR_ALEF"," ","AR_HEH","AR_YEH_BARREE","AQM">> }

\* number of fragments typed into one question
MaxTokens == 2

Reply(t) == [ok |-> TRUE, text |-> t, err |-> <<>>]

Failure(e) == [ok |-> FALSE, text |-> <<>>, err |-> e]

\* outcomes of model.generate_content(prompt).text: replies (empty, padded,
\* "unknown", opening with the disclaimer and holding a list) and a failure
ModelOutcomes ==
    { Reply(<<>>),
      Reply(<<" ","o","k","NL">>),
      Reply(UnknownMarker),
      Reply(Disclaimer \o <<"NL","-"," ","a","NL","1","."," ","b">>),
      Failure(<<"q","u","o","t","a"," ","4","2","9">>) }

----------------------------------------------------------------------------
(* State                                                                   *)

VARIABLES
    ppc_uploaded_file,   \* widget state: the PPC upload slot
    crpc_uploaded_file,  \* widget state: the CrPC upload slot
    user_input,          \* widget state: the question field
    typed,               \* number of fragments typed into user_input
    ppc_text,            \* main: extracted PPC text, or None
    crpc_text,           \* main: extracted CrPC text, or None
    response_lang,       \* main: 'ur', 'en' or 'ro'
    section_match,       \* main: result of the router's re.search
    call,                \* the operation in progress and its arguments
    section_content,     \* get_law_details: the excerpt
    prompt,              \* the prompt built for the model
    response,            \* outcome of model.generate_content(prompt).text
    result,              \* the value the operation returned, None before
    sidebar,             \* st.sidebar messages of this run
    screen,              \* st messages of this run, in order
    model_calls,         \* calls of model.generate_content in this run
    fault,               \* an exception left the operation
    pc,                  \* position in the script run
    steps                \* positions passed in this run, in order

vars == <<ppc_uploaded_file, crpc_uploaded_file, user_input, typed, ppc_text,
          crpc_text, response_lang, section_match, call, section_content,
          prompt, response, result, sidebar, screen, model_calls, fault, pc,
          steps>>

widgets == <<ppc_uploaded_file, crpc_uploaded_file, user_input, typed>>

NoCall == [fn |-> "none", caller |-> "none", section_number |-> <<>>,
           law_text |-> NoneText, case_description |-> <<>>,
           ppc_text |-> NoneText, crpc_text |-> NoneText, lang |-> "ur",
           text |-> <<>>]

Msg(kind, body) == [kind |-> kind, body |-> body]

Init ==
    /\ ppc_uploaded_file = NoUpload
    /\ crpc_uploaded_file = NoUpload
    /\ user_input = <<>>
    /\ typed = 0
    /\ ppc_text = NoneText
    /\ crpc_text = NoneText
    /\ response_lang = "ur"
    /\ section_match = NoMatch
    /\ call = NoCall
    /\ section_content = <<>>
    /\ prompt = NoPrompt
    /\ response = Reply(<<>>)
    /\ result = NoneText
    /\ sidebar = <<>>
    /\ screen = <<>>
    /\ model_calls = 0
    /\ fault = FALSE
    /\ pc = "done"
    /\ steps = <<>>

----------------------------------------------------------------------------
(* main, lines 201-248: every widget interaction runs the script again     *)

\* lines 214-233, one slot: the sidebar message
SlotStatus(name, f) ==
    IF ~f.present THEN Msg("info", <<name, "please upload">>)
    ELSE IF Truthy(extract_text_from_pdf(f)) THEN Msg("success", <<name, "loaded">>)
    ELSE Msg("error", <<name, "failed to load">>)

\* lines 214-216 / 225-227: the slot's text; None without an upload
SlotText(f) == IF f.present THEN extract_text_from_pdf(f) ELSE NoneText

\* line 33: st.error of a file that cannot be read
ExtractErrors(f) == IF f.present /\ f.corrupt THEN <<Msg("error", <<"extract">>)>> ELSE <<>>

\* variant of CorporaMissing: the gate closes only when both are missing
CorporaMissingBoth(ppc, crpc) == ~Truthy(ppc) /\ ~Truthy(crpc)

\* line 247: the corpus gate
CorporaMissing(ppc, crpc) == ~Truthy(ppc) \/ ~Truthy(crpc)

\* lines 208-248 with the widget values f1, f2, q
Rerun(f1, f2, q) ==
    LET blocked == CorporaMissing(SlotText(f1), SlotText(f2))
    IN  /\ ppc_text' = SlotText(f1)
        /\ crpc_text' = SlotText(f2)
        /\ sidebar' = <<SlotStatus("PPC", f1), SlotStatus("CrPC", f2)>>
        /\ screen' = ExtractErrors(f1) \o ExtractErrors(f2) \o
                     (IF q # <<>> /\ blocked THEN <<Msg("warning", UploadWarning)>> ELSE <<>>)
        /\ pc' = IF q # <<>> /\ ~blocked THEN "detect" ELSE "done"
        /\ steps' = IF q = <<>> THEN <<>> ELSE IF blocked THEN <<"warning">> ELSE <<>>
        /\ response_lang' = "ur"
        /\ section_match' = NoMatch
        /\ call' = NoCall
        /\ section_content' = <<>>
        /\ prompt' = NoPrompt
        /\ response' = Reply(<<>>)
        /\ result' = NoneText
        /\ model_calls' = 0
        /\ fault' = FALSE

\* the user picks (or removes) the PPC file
UploadPPC(f) ==
    /\ pc = "done"
    /\ f # ppc_uploaded_file
    /\ ppc_uploaded_file' = f
    /\ UNCHANGED <<crpc_uploaded_file, user_input, typed>>
    /\ Rerun(f, crpc_uploaded_file, user_input)

\* the user picks (or removes) the CrPC file
UploadCrPC(f) ==
    /\ pc = "done"
    /\ f # crpc_uploaded_file
    /\ crpc_uploaded_file' = f
    /\ UNCHANGED <<ppc_uploaded_file, user_input, typed>>
    /\ Rerun(ppc_uploaded_file, f, user_input)

\* the user types one more fragment and submits
Ask(t) ==
    /\ pc = "done"
    /\ typed < MaxTokens
    /\ user_input' = user_input \o t
    /\ typed' = typed + 1
    /\ UNCHANGED <<ppc_uploaded_file, crpc_uploaded_file>>
    /\ Rerun(ppc_uploaded_file, crpc_uploaded_file, user_input \o t)

\* the user empties the question field
ClearQuestion ==
    /\ pc = "done"
    /\ user_input # <<>>
    /\ user_input' = <<>>
    /\ typed' = 0
    /\ UNCHANGED <<ppc_uploaded_file, crpc_uploaded_file>>
    /\ Rerun(ppc_uploaded_file, crpc_uploaded_file, <<>>)

----------------------------------------------------------------------------
(* main, lines 250-295                                                     *)

\* lines 250-262
DetectLang ==
    /\ pc = "detect"
    /\ response_lang' = DetectLanguage(user_input)
    /\ pc' = "route"
    /\ steps' = Append(steps, "detect")
    /\ UNCHANGED <<widgets, ppc_text, crpc_text, section_match, call,
                   section_content, prompt, response, result, sidebar, screen,
                   model_calls, fault>>

\* lines 270-276: the corpus of the law code, PPC unless the code is CrPC
law_text_to_use(m, ppc, crpc) ==
    IF m.group1 # <<>> /\ lower(m.group1) = lower(LIT_CrPC) THEN crpc ELSE ppc

\* lines 273 and 276: the law code named in the st.info message
InfoLaw(m) ==
    IF m.group1 # <<>> /\ lower(m.group1) = lower(LIT_CrPC) THEN "CrPC" ELSE "PPC"

\* lines 264-280 and 288-291: the router decides between the two operations
Route ==
    /\ pc = "route"
    /\ LET m   == SectionSearch(user_input)
           txt == law_text_to_use(m, ppc_text, crpc_text)
       IN  /\ section_match' = m
           /\ IF m.found
              THEN /\ IF Truthy(txt)
                      THEN /\ call' = [NoCall EXCEPT !.fn = "get_law_details",
                                         !.caller = "main",
                                         !.section_number = m.group2,
                                         !.law_text = txt,
                                         !.lang = response_lang]
                           /\ pc' = "details"
                           /\ screen' = Append(screen, Msg("info", <<InfoLaw(m)>> \o m.group2))
                      ELSE /\ call' = call
                           /\ pc' = "done"
                           /\ screen' = screen \o <<Msg("info", <<InfoLaw(m)>> \o m.group2),
                                                    Msg("error", LawTextError)>>
                   /\ steps' = Append(steps, "route_section")
              ELSE /\ call' = [NoCall EXCEPT !.fn = "analyze_case",
                                 !.caller = "main",
                                 !.case_description = user_input,
                                 !.ppc_text = ppc_text,
                                 !.crpc_text = crpc_text,
                                 !.lang = response_lang]
                   /\ pc' = "case"
                   /\ screen' = Append(screen, Msg("info", <<"analysing case">>))
                   /\ steps' = Append(steps, "route_case")
    /\ UNCHANGED <<widgets, ppc_text, crpc_text, response_lang,
                   section_content, prompt, response, result, sidebar,
                   model_calls, fault>>

\* where an operation returns to: main displays, a direct call is over
AfterReturn == IF call.caller = "main" THEN "display" ELSE "done"

\* get_law_details, lines 93-147: the empty-corpus return, else the excerpt
\* and the prompt; an unknown lang raises KeyError at line 143
Details ==
    /\ pc = "details"
    /\ IF ~Truthy(call.law_text)
       THEN /\ result' = Some(TextNotAvailable(call.lang))
            /\ pc' = AfterReturn
            /\ steps' = Append(steps, "details_unavailable")
            /\ UNCHANGED <<section_content, prompt, fault>>
       ELSE IF call.lang \notin DOMAIN lang_map_full
       THEN /\ fault' = TRUE
            /\ pc' = "done"
            /\ steps' = Append(steps, "details_keyerror")
            /\ UNCHANGED <<section_content, prompt, result>>
       ELSE /\ section_content' = LocateSection(call.section_number, call.law_text.s)
            /\ prompt' = DetailPrompt(call.section_number,
                                      LocateSection(call.section_number, call.law_text.s),
                                      call.lang)
            /\ pc' = "generate_details"
            /\ steps' = Append(steps, "locate")
            /\ UNCHANGED <<result, fault>>
    /\ UNCHANGED <<widgets, ppc_text, crpc_text, response_lang, section_match,
                   call, response, sidebar, screen, model_calls>>

\* get_law_details, lines 149-158: one call of the model, its reply
\* post-processed, its failure turned into the returned text
GenerateDetails(o) ==
    /\ pc = "generate_details"
    /\ model_calls' = model_calls + 1
    /\ response' = o
    /\ result' = Some(DetailsAnswer(o, section_content, call.lang))
    /\ pc' = AfterReturn
    /\ steps' = Append(steps, "generate_details")
    /\ UNCHANGED <<widgets, ppc_text, crpc_text, response_lang, section_match,
                   call, section_content, prompt, sidebar, screen, fault>>

\* analyze_case, lines 165-192
Case ==
    /\ pc = "case"
    /\ IF ~Truthy(call.ppc_text) \/ ~Truthy(call.crpc_text)
       THEN /\ result' = Some(CaseNotAvailable(call.lang))
            /\ pc' = AfterReturn
            /\ steps' = Append(steps, "case_unavailable")
            /\ UNCHANGED <<prompt, fault>>
       ELSE IF call.lang \notin DOMAIN lang_map_full
       THEN /\ fault' = TRUE
            /\ pc' = "done"
            /\ steps' = Append(steps, "case_keyerror")
            /\ UNCHANGED <<prompt, result>>
       ELSE /\ prompt' = CasePrompt(call.case_description, call.ppc_text.s,
                                    call.crpc_text.s, call.lang)
            /\ pc' = "generate_case"
            /\ steps' = Append(steps, "case_prompt")
            /\ UNCHANGED <<result, fault>>
    /\ UNCHANGED <<widgets, ppc_text, crpc_text, response_lang, section_match,
                   call, section_content, response, sidebar, screen, model_calls>>

\* analyze_case, lines 194-198
GenerateCase(o) ==
    /\ pc = "generate_case"
    /\ model_calls' = model_calls + 1
    /\ response' = o
    /\ result' = Some(CaseAnswer(o, call.lang))
    /\ pc' = AfterReturn
    /\ steps' = Append(steps, "generate_case")
    /\ UNCHANGED <<widgets, ppc_text, crpc_text, response_lang, section_match,
                   call, section_content, prompt, sidebar, screen, fault>>

\* display_urdu_rtl_streamlit, lines 41-86: what st.markdown receives
display_urdu_rtl_streamlit(text) == Msg("rtl", ProcessText(text))

\* lines 281-284 and 292-295
Rendered(lang, text) ==
    IF lang = "ur" THEN display_urdu_rtl_streamlit(text) ELSE Msg("write", text)

Display ==
    /\ pc = "display"
    /\ screen' = Append(screen, Rendered(response_lang, result.s))
    /\ pc' = "done"
    /\ steps' = Append(steps, "display")
    /\ UNCHANGED <<widgets, ppc_text, crpc_text, response_lang, section_match,
                   call, section_content, prompt, response, result, sidebar,
                   model_calls, fault>>

Next ==
    \/ \E f \in PpcUploads : UploadPPC(f)
    \/ \E f \in CrpcUploads : UploadCrPC(f)
    \/ \E t \in QueryTokens : Ask(t)
    \/ ClearQuestion
    \/ DetectLang
    \/ Route
    \/ Details
    \/ \E o \in ModelOutcomes : GenerateDetails(o)
    \/ Case
    \/ \E o \in ModelOutcomes : GenerateCase(o)
    \/ Display

Spec == Init /\ [][Next]_vars

----------------------------------------------------------------------------
(* The three operations called on their own, each from the initial state,  *)
(* with arguments main never passes (a missing corpus, an unknown tag)     *)

DirectSections == { <<"3","0","2">>, <<"4","2","0">> }

DirectTexts == {NoneText} \cup {SlotText(f) : f \in PpcUploads \cup CrpcUploads}

\* the three tags and one outside the enumeration
DirectLangs == Langs \cup {"fr"}

CaseDescriptions == { <<"c","h","o","r","i">>, <<"3","0","2">> }

\* fragments of a text handed to the formatter
LineTokens ==
    { <<"-"," ">>, <<"3","."," ">>, <<"BULLET"," ">>, <<"*">>,
      <<"f","o","o">>, <<" ","7",".">>, <<" ">>, <<"NL">> }

\* number of fragments in a formatted text
MaxLineTokens == 3

RECURSIVE TextsUpTo(_)
TextsUpTo(n) ==
    IF n = 0 THEN {<<>>}
    ELSE LET prev == TextsUpTo(n - 1)
         IN  prev \cup {p \o t : p \in prev, t \in LineTokens}

DisplayTexts == TextsUpTo(MaxLineTokens)

Fresh == pc = "done" /\ call.fn = "none" /\ steps = <<>> /\ screen = <<>>

CallGetLawDetails(n, t, l) ==
    /\ Fresh
    /\ call' = [NoCall EXCEPT !.fn = "get_law_details", !.caller = "direct",
                  !.section_number = n, !.law_text = t, !.lang = l]
    /\ pc' = "details"
    /\ UNCHANGED <<widgets, ppc_text, crpc_text, response_lang, section_match,
                   section_content, prompt, response, result, sidebar, screen,
                   model_calls, fault, steps>>

CallAnalyzeCase(d, t1, t2, l) ==
    /\ Fresh
    /\ call' = [NoCall EXCEPT !.fn = "analyze_case", !.caller = "direct",
                  !.case_description = d, !.ppc_text = t1, !.crpc_text = t2,
                  !.lang = l]
    /\ pc' = "case"
    /\ UNCHANGED <<widgets, ppc_text, crpc_text, response_lang, section_match,
                   section_content, prompt, response, result, sidebar, screen,
                   model_calls, fault, steps>>

CallDisplay(t) ==
    /\ Fresh
    /\ call' = [NoCall EXCEPT !.fn = "display_urdu_rtl_streamlit",
                  !.caller = "direct", !.text = t]
    /\ screen' = <<display_urdu_rtl_streamlit(t)>>
    /\ steps' = <<"display">>
    /\ UNCHANGED <<widgets, ppc_text, crpc_text, response_lang, section_match,
                   section_content, prompt, response, result, sidebar,
                   model_calls, fault, pc>>

NextOps ==
    \/ \E n \in DirectSections, t \in DirectTexts, l \in DirectLangs :
          CallGetLawDetails(n, t, l)
    \/ \E d \in CaseDescriptions, t1 \in DirectTexts, t2 \in DirectTexts,
          l \in DirectLangs : CallAnalyzeCase(d, t1, t2, l)
    \/ \E t \in DisplayTexts : CallDisplay(t)
    \/ Details
    \/ \E o \in ModelOutcomes : GenerateDetails(o)
    \/ Case
    \/ \E o \in ModelOutcomes : GenerateCase(o)

SpecOps == Init /\ [][NextOps]_vars

----------------------------------------------------------------------------
(* Properties                                                              *)

StartsWith(s, p) == Len(p) <= Len(s) /\ SubSeq(s, 1, Len(p)) = p

LastOf(s) == s[Len(s)]

\* the fixed texts written in Urdu and those written in English
UrduFixed ==
    { "<ur: relevant legal text not available>",
      "<ur: no details for this section at the moment>",
      "<ur: legal text not available for case analysis>",
      "<ur: error getting response from Gemini API: >" }

EnglishFixed ==
    { "<en: Sorry, relevant legal text is not available.>",
      "<en: I do not have details for this section at the moment.>",
      "<en: Sorry, legal text is not available for case analysis.>",
      "<en: Error getting response from Gemini API: >",
      "<en: Please upload both PPC and CrPC PDF files in the sidebar to use the chatbot.>",
      "<en: Error: Law text not available for the requested section.>" }

\* the language a fixed text is written in; no fixed text is in Roman Urdu
TextLanguage(t) ==
    IF t = <<>> THEN "none"
    ELSE IF t[1] \in UrduFixed THEN "ur"
    ELSE IF t[1] \in EnglishFixed THEN "en"
    ELSE "none"

\* the language the program answers in when it has two variants of a text
TwoVariant(lang) == IF lang = "ur" THEN "ur" ELSE "en"

BothCorpora == Truthy(ppc_text) /\ Truthy(crpc_text)

\* a lookup or a case analysis has been started in this run
Attempted ==
    \/ pc \in {"details", "generate_details", "case", "generate_case", "display"}
    \/ call.fn # "none"
    \/ model_calls > 0

\* a run is over whose query was not empty and which lacked a corpus
ShortCircuited == pc = "done" /\ user_input # <<>> /\ ~BothCorpora

\* C1 as stated: a lookup or case analysis is attempted only with both
\* corpora non-empty, and with a corpus missing or empty a non-empty query
\* gets a fixed "documents not available" response in the language the
\* query asks for.
C1_Original ==
    /\ Attempted => BothCorpora
    /\ ShortCircuited =>
          /\ ~Attempted
          /\ screen # <<>>
          /\ LastOf(screen).kind = "warning"
          /\ TextLanguage(LastOf(screen).body) = DetectLanguage(user_input)

\* C1 amended: a lookup or case analysis is attempted only with both
\* corpora non-empty; with a corpus missing or empty a non-empty query gets
\* the one fixed English "please upload both files" warning, whatever the
\* language of the query, and no operation runs.
C1_ShortCircuit ==
    /\ Attempted => BothCorpora
    /\ ShortCircuited =>
          /\ ~Attempted
          /\ result.isNone
          /\ screen # <<>>
          /\ LastOf(screen).kind = "warning"
          /\ LastOf(screen).body =
                <<"<en: Please upload both PPC and CrPC PDF files in the sidebar to use the chatbot.>">>

\* C1 witness: an Urdu query submitted while the PPC upload extracted to
\* the empty text
C1_Witness ==
    /\ ShortCircuited
    /\ ppc_uploaded_file = BlankPdf
    /\ crpc_uploaded_file = CrpcPdf
    /\ ppc_text = Some(<<>>)
    /\ DetectLanguage(user_input) = "ur"
    /\ LastOf(screen).kind = "warning"

----------------------------------------------------------------------------

\* the pattern C2 describes: an optional PPC / CrPC token, spaces, digits
ClaimedMatchAt(s, i, n) ==
    LET w == SkipSpace(s, i + n)
        d == SkipDigit(s, w)
    IN  WordBoundary(s, i) /\ d > w /\ WordBoundary(s, d)

ClaimedCodeLenAt(s, i) ==
    IF LawCodeLenAt(s, i) > 0 /\ ClaimedMatchAt(s, i, LawCodeLenAt(s, i))
    THEN LawCodeLenAt(s, i) ELSE 0

ClaimedReference(s) ==
    LET starts == {i \in 1..Len(s) : ClaimedMatchAt(s, i, ClaimedCodeLenAt(s, i))}
    IN  IF starts = {} THEN [found |-> FALSE, code |-> "PPC", number |-> <<>>]
        ELSE LET i == Min(starts)
                 n == ClaimedCodeLenAt(s, i)
                 w == SkipSpace(s, i + n)
             IN  [found  |-> TRUE,
                  code   |-> IF n = 4 THEN "CrPC" ELSE "PPC",
                  number |-> SubSeq(s, w, SkipDigit(s, w) - 1)]

Routed == Len(steps) >= 2

\* C2 as stated: a query holding an optional PPC / CrPC token followed by
\* digits is routed to section lookup for that law code (PPC when the token
\* is absent) and number, against that code's corpus; every other query is
\* routed to case analysis.
C2_Original ==
    Routed =>
        LET want == ClaimedReference(user_input)
        IN  IF want.found
            THEN /\ steps[2] = "route_section"
                 /\ section_match.found
                 /\ call.fn = "get_law_details"
                 /\ call.section_number = want.number
                 /\ call.law_text = (IF want.code = "CrPC" THEN crpc_text ELSE ppc_text)
            ELSE /\ steps[2] = "route_case"
                 /\ ~section_match.found
                 /\ call.fn = "analyze_case"

----------------------------------------------------------------------------

C3_Keywords ==
    { <<"k","y","a">>, <<"k","i","y","a">>, <<"k","a","i","s","e">>,
      <<"m","e","i","n">>, <<"m","u","j","h","e">>, <<"b","a","t","a","o">>,
      <<"l","a","g","t","e">>, <<"h","o","g","a","y","a">> }

Mentions(q, word) == Contains(lower(q), word)

C3_Rule1(q) ==
    \/ Mentions(q, <<"w","h","a","t"," ","i","s">>)
    \/ Mentions(q, <<"s","e","c","t","i","o","n">>)
    \/ /\ Mentions(q, <<"l","a","w">>)
       /\ ~Mentions(q, <<"u","r","d","u">>)
       /\ ~Mentions(q, <<"r","o","m","a","n">>)

C3_HasLetter(q) == \E i \in DOMAIN q : isalpha(q[i])

C3_Rule2(q) == C3_HasLetter(q) /\ \A i \in DOMAIN q : ~isascii(q[i])

C3_Rule3(q) == C3_HasLetter(q) /\ \E k \in C3_Keywords : Mentions(q, k)

C3_Tag(q) ==
    IF C3_Rule1(q) THEN "en"
    ELSE IF C3_Rule2(q) THEN "ur"
    ELSE IF C3_Rule3(q) THEN "ro"
    ELSE "ur"

Classified == steps # <<>> /\ steps[1] = "detect"

\* C3: the tag the classifier gives a query is one of Urdu, English and
\* Roman Urdu and is the result of the four ordered rules; a query of
\* Arabic-script letters only is Urdu, and a query with "what is" (any
\* case) and neither "urdu" nor "roman" is English.
C3_Classifier ==
    Classified =>
        /\ response_lang \in Langs
        /\ response_lang = C3_Tag(user_input)
        /\ (\A i \in DOMAIN user_input : user_input[i] \in ArabicLetter)
              => response_lang = "ur"
        /\ ( /\ Mentions(user_input, <<"w","h","a","t"," ","i","s">>)
             /\ ~Mentions(user_input, <<"u","r","d","u">>)
             /\ ~Mentions(user_input, <<"r","o","m","a","n">>) )
              => response_lang = "en"

\* C3 witness: a query with a Roman Urdu keyword, no English cue, has been
\* classified Roman Urdu
C3_Witness ==
    /\ Classified
    /\ response_lang = "ro"
    /\ ~C3_Rule1(user_input)
    /\ C3_Rule3(user_input)

----------------------------------------------------------------------------

\* "Section 302 Qatl Section 303 x Section 420 Cheating Section 421 y"
PlainCorpus == SlotText(PpcPdf).s

\* C4 as stated: the excerpt for section 302 of a corpus holding
\* "Section 302 ... Section 303" is the text from the "Section 302" marker
\* up to the next marker, cut to 2000 characters; it is empty when the
\* corpus does not hold the number; it is always a piece of the corpus of
\* at most 2000 characters.
C4_Original ==
    (call.fn = "get_law_details" /\ pc = "generate_details") =>
        /\ Len(section_content) <= 2000
        /\ Contains(call.law_text.s, section_content)
        /\ (call.law_text.s = PlainCorpus /\ call.section_number = <<"3","0","2">>)
              => section_content =
                    <<"S","e","c","t","i","o","n"," ","3","0","2"," ","Q","a","t","l"," ">>
        /\ ~Contains(call.law_text.s, call.section_number) => section_content = <<>>

----------------------------------------------------------------------------

CaseReturned == call.fn = "analyze_case" /\ call.lang \in Langs /\ ~result.isNone

\* C5 as stated: whatever the model returns, the value the case analysis
\* returns begins with the fixed disclaimer, in each of the three languages.
C5_Original == CaseReturned => StartsWith(result.s, Disclaimer)

\* C5 amended: the case analysis quotes the fixed disclaimer in every prompt
\* it sends and returns the model's reply unchanged, so the returned value
\* begins with the disclaimer exactly when the model's reply does; the
\* "not available" and error texts it returns otherwise do not carry it.
C5_ReplyVerbatim ==
    /\ (call.fn = "analyze_case" /\ pc = "generate_case")
          => prompt.task = "case" /\ prompt.quoted = Disclaimer
    /\ CaseReturned =>
          IF model_calls = 1 /\ response.ok
          THEN /\ result.s = response.text
               /\ StartsWith(result.s, Disclaimer) <=> StartsWith(response.text, Disclaimer)
          ELSE ~StartsWith(result.s, Disclaimer)

\* C5 witness: a Roman Urdu case analysis returned a reply that opens with
\* the disclaimer
C5_Witness ==
    /\ CaseReturned
    /\ call.lang = "ro"
    /\ model_calls = 1
    /\ response.ok
    /\ StartsWith(result.s, Disclaimer)

----------------------------------------------------------------------------

\* get_law_details has returned from a call with a missing or empty corpus
EmptyCorpusCall ==
    /\ call.fn = "get_law_details"
    /\ ~Truthy(call.law_text)
    /\ call.lang \in Langs
    /\ pc = "done"
    /\ steps # <<>>

\* C6 as stated: with an empty or missing corpus the section detail
\* operation returns the fixed "not available" text in the requested
\* language, for each of the three languages, and calls no model.
C6_Original ==
    EmptyCorpusCall =>
        /\ ~result.isNone
        /\ Len(result.s) = 1
        /\ TextLanguage(result.s) = call.lang
        /\ model_calls = 0

\* C6 amended: with an empty or missing corpus the section detail operation
\* returns the fixed "not available" text, the Urdu one for Urdu and the
\* English one for English and for Roman Urdu, and calls no model; no call
\* of the operation calls the model more than once.
C6_NotAvailable ==
    /\ model_calls <= 1
    /\ EmptyCorpusCall =>
          /\ ~result.isNone
          /\ result.s \in { <<"<ur: relevant legal text not available>">>,
                            <<"<en: Sorry, relevant legal text is not available.>">> }
          /\ TextLanguage(result.s) = TwoVariant(call.lang)
          /\ model_calls = 0
          /\ prompt = NoPrompt

\* C6 witness: a Roman Urdu call with the empty text has returned
C6_Witness ==
    /\ EmptyCorpusCall
    /\ call.lang = "ro"
    /\ call.law_text = Some(<<>>)
    /\ ~result.isNone

----------------------------------------------------------------------------

ModelFailed == model_calls = 1 /\ ~response.ok

----------------------------------------------------------------------------

\* the line C8 describes: a list item loses its leading marker and gets the
\* bullet and one space before its text, any other line stays as it is
ClaimedLine(line) ==
    LET s == strip(line)
        e == PatternEndAt(s, 1)
    IN  IF e > 0 THEN <<"BULLET", " ">> \o strip(SubSeq(s, e, Len(s))) ELSE line

Displayed == call.fn = "display_urdu_rtl_streamlit" /\ screen # <<>>

\* C8 as stated: line by line, a list item ("- foo", "3. bar") becomes the
\* bullet followed by its text with only the leading marker removed
\* ("• foo", "• bar") and every other line is unchanged.
C8_Original ==
    Displayed =>
        LET in  == SplitLines(call.text)
            out == SplitLines(screen[1].body)
        IN  /\ Len(out) = Len(in)
            /\ \A i \in DOMAIN in : out[i] = ClaimedLine(in[i])

\* a line of the form "• text"
NormalizedBullet(line) ==
    /\ StartsWith(line, <<"BULLET", " ">>)
    /\ Len(line) > 2
    /\ strip(SubSeq(line, 3, Len(line))) = SubSeq(line, 3, Len(line))

\* C9 as stated: a line "• text" is left as it is, and formatting the
\* formatter's output again changes nothing.
C9_Original ==
    Displayed =>
        LET in  == SplitLines(call.text)
            out == SplitLines(screen[1].body)
        IN  /\ \A i \in DOMAIN in :
                  (i <= Len(out) /\ NormalizedBullet(in[i])) => out[i] = in[i]
            /\ ProcessText(screen[1].body) = screen[1].body

----------------------------------------------------------------------------

\* "420 <kya hai><AQM>", the first example of line 239
ExampleQuery ==
    <<"4","2","0"," ","AR_KEHEH","AR_YEH","AR_ALEF"," ","AR_HEH","AR_YEH_BARREE","AQM">>

\* C10 as stated: with both corpora loaded and "Section 420 Cheating" in
\* the PPC corpus, the example query is classified Urdu, routed to section
\* lookup for PPC 420, a non-empty excerpt is located, the model is called
\* once and the answer is rendered right to left, in this order.
C10_Original ==
    ( /\ pc = "done"
      /\ user_input = ExampleQuery
      /\ BothCorpora
      /\ Contains(ppc_text.s, <<"S","e","c","t","i","o","n"," ","4","2","0"," ",
                                "C","h","e","a","t","i","n","g">>) )
    => /\ steps = <<"detect", "route_section", "locate", "generate_details", "display">>
       /\ response_lang = "ur"
       /\ section_match.found
       /\ call.section_number = <<"4","2","0">>
       /\ call.law_text = ppc_text
       /\ section_content # <<>>
       /\ model_calls = 1
       /\ LastOf(screen).kind = "rtl"

====
